---- MODULE Spec2Model ----
(***************************************************************************)
(* Model of examples/pipelines/rag/lightrag_pipeline.py: the Pipeline      *)
(* adapter that wraps a LightRAG engine for a chat-completion host.        *)
(*                                                                         *)
(* The host drives the adapter through three entry points:                 *)
(*   on_startup        (async, one suspension point: the awaited fetch)    *)
(*   on_valves_updated (async, no suspension point)                        *)
(*   pipe              (plain def, run once per request, possibly on       *)
(*                      several threads at once)                           *)
(* Coroutines run on one event loop: between two suspension points a       *)
(* coroutine is not interleaved with another coroutine (variable loop).    *)
(* pipe calls interleave freely with everything.  pipe writes no shared    *)
(* variable, so a call on another thread cannot change what a call reads:  *)
(* one caller thread stands for all of them.                               *)
(*                                                                         *)
(* The engine (LightRAG), the fetch service (SimpleWebPageReader) and the  *)
(* filesystem are external: their calls are recorded in per-invocation     *)
(* logs and their results are nondeterministic.                            *)
(***************************************************************************)
EXTENDS Integers, Sequences, FiniteSets, TLC

\* ---------------------------------------------------------------- bounds
\* number of engine handles constructed in one behaviour
MaxConstructions == 2
\* longest document list the fetch service returns
MaxDocs == 2

\* ------------------------------------------------------- value universes
\* the host threads that call pipe
Threads == {"t1"}

\* texts of fetched documents (doc.text)
Docs == {"doc-a", "doc-b"}

\* fetch results: every list of documents of length 0..MaxDocs
DocLists == UNION {[1..n -> Docs] : n \in 0..MaxDocs}

\* model_id values the host may pass: empty, a listed mode, an unlisted one
ModelIds == {"", "local", "bogus"}

\* request bodies: a body is the set of its key/value pairs
Bodies == {{}, {<<"mode", "global">>}}

\* user messages
Messages == {"question"}

\* answers the engine may return from query
Answers == {"answer-1", "answer-2"}

\* ------------------------------------------------------------- Valves
\* Pipeline.Valves as built by __init__ when the environment sets nothing.
\* OPENAI_API_KEY and LLM_MODEL are never read by the three entry points.
DefaultValves ==
  [WORKING_DIR     |-> ".ra",
   SEARCH_MODE     |-> "hybrid",
   USE_MINI_MODEL  |-> TRUE,
   TARGET_URL      |-> "https://lightrag.github.io/",
   HTML_TO_TEXT    |-> TRUE,
   CHUNK_SIZE      |-> 1000,
   CHUNK_OVERLAP   |-> 200,
   DISTANCE_METRIC |-> "cosine",
   TOP_K           |-> 5]

\* the configurations the environment or the host may install: the
\* defaults, and one that differs in every field the entry points read
ValvesSet ==
  {DefaultValves,
   [DefaultValves EXCEPT !.WORKING_DIR = ".rb",
                         !.TARGET_URL = "https://example.org/",
                         !.HTML_TO_TEXT = FALSE,
                         !.SEARCH_MODE = "naive",
                         !.USE_MINI_MODEL = FALSE,
                         !.DISTANCE_METRIC = "euclidean",
                         !.TOP_K = 3]}

\* every working directory a configuration can name
Dirs == {v.WORKING_DIR : v \in ValvesSet}

\* ------------------------------------------------------------- engine
\* self.rag = None
NoHandle ==
  [id |-> 0, working_dir |-> "", llm_model_func |-> "", chunk_size |-> 0,
   chunk_overlap |-> 0, distance_metric |-> "", top_k |-> 0]

\* llm_func = gpt_4o_mini_complete if USE_MINI_MODEL else gpt_4o_complete
llm_func(v) ==
  IF v.USE_MINI_MODEL THEN "gpt_4o_mini_complete" ELSE "gpt_4o_complete"

\* LightRAG(working_dir=..., llm_model_func=..., ...): the id-th handle
LightRAG(v, id) ==
  [id              |-> id,
   working_dir     |-> v.WORKING_DIR,
   llm_model_func  |-> llm_func(v),
   chunk_size      |-> v.CHUNK_SIZE,
   chunk_overlap   |-> v.CHUNK_OVERLAP,
   distance_metric |-> v.DISTANCE_METRIC,
   top_k           |-> v.TOP_K]

\* no QueryParam has been built yet
NoParam == [mode |-> "", top_k |-> 0, distance_metric |-> ""]

\* query parameters fixed to the first configuration instead of the current
QueryParamStale(mode, v) ==
  [mode |-> mode, top_k |-> DefaultValves.TOP_K,
   distance_metric |-> DefaultValves.DISTANCE_METRIC]

\* QueryParam(mode=..., top_k=..., distance_metric=...)
QueryParam(mode, v) ==
  [mode |-> mode, top_k |-> v.TOP_K, distance_metric |-> v.DISTANCE_METRIC]

\* one recorded external call: op, its argument, the handle id it went to
Call(op, arg, h) == [op |-> op, arg |-> arg, h |-> h]

\* ---------------------------------------------------------------- state
VARIABLES
  valves,   \* self.valves
  rag,      \* self.rag
  nextId,   \* identity of the next handle LightRAG(...) returns
  dirs,     \* directories that exist
  marker,   \* directories that contain index.faiss
  index,    \* directories whose persisted index holds at least one document
  loop,     \* which coroutine the event loop is running
  st,       \* the on_startup invocation
  up,       \* the on_valves_updated invocation
  pipes     \* per thread: the pipe call it is making

vars == <<valves, rag, nextId, dirs, marker, index, loop, st, up, pipes>>

\* ------------------------------------------------------------ records
\* the on_startup coroutine before its first invocation
StartupIdle ==
  [pc |-> "idle", tmp |-> NoHandle, branch |-> "", documents |-> <<>>,
   i |-> 1, err |-> "", log |-> <<>>]

\* the on_valves_updated coroutine before its first invocation
UpdateIdle == [pc |-> "idle", tmp |-> NoHandle, log |-> <<>>]

\* a thread that is not inside pipe
PipeIdle ==
  [pc |-> "idle", user_message |-> "", model_id |-> "", body |-> {},
   search_mode |-> "", query_param |-> NoParam, handle |-> NoHandle,
   nquery |-> 0, response |-> "", err |-> "", gen |-> "none", out |-> <<>>]

\* ------------------------------------------------------------- __init__
\* The environment decides the configuration and what is on disk; a
\* directory that holds the marker exists and holds a built index.
Init ==
  /\ valves \in ValvesSet
  /\ rag = NoHandle
  /\ nextId = 1
  /\ dirs \in SUBSET Dirs
  /\ marker \in SUBSET dirs
  /\ index = marker
  /\ loop = "free"
  /\ st = StartupIdle
  /\ up = UpdateIdle
  /\ pipes = [t \in Threads |-> PipeIdle]

\* the host replaces self.valves wholesale (between coroutine steps)
valves_replaced ==
  /\ loop = "free"
  /\ \E v \in ValvesSet \ {valves} : valves' = v
  /\ UNCHANGED <<rag, nextId, dirs, marker, index, loop, st, up, pipes>>

\* ----------------------------------------------------------- on_startup
\* the host awaits on_startup(): the coroutine starts running
on_startup_call ==
  /\ loop = "free"
  /\ st.pc \in {"idle", "done", "failed"}
  /\ nextId <= MaxConstructions
  /\ st' = [StartupIdle EXCEPT !.pc = "makedirs"]
  /\ loop' = "on_startup"
  /\ UNCHANGED <<valves, rag, nextId, dirs, marker, index, up, pipes>>

\* os.makedirs(self.valves.WORKING_DIR, exist_ok=True)
on_startup_makedirs ==
  /\ st.pc = "makedirs"
  /\ dirs' = dirs \cup {valves.WORKING_DIR}
  /\ st' = [st EXCEPT !.pc = "construct",
                      !.log = Append(@, Call("makedirs", valves.WORKING_DIR, 0))]
  /\ UNCHANGED <<valves, rag, nextId, marker, index, loop, up, pipes>>

\* LightRAG(...): the right-hand side of the assignment to self.rag
on_startup_construct ==
  /\ st.pc = "construct"
  /\ st' = [st EXCEPT !.pc = "assign",
                      !.tmp = LightRAG(valves, nextId),
                      !.log = Append(@, Call("construct", valves.WORKING_DIR, nextId))]
  /\ nextId' = nextId + 1
  /\ UNCHANGED <<valves, rag, dirs, marker, index, loop, up, pipes>>

\* self.rag = <the constructed handle>
on_startup_assign ==
  /\ st.pc = "assign"
  /\ rag' = st.tmp
  /\ st' = [st EXCEPT !.pc = "check"]
  /\ UNCHANGED <<valves, nextId, dirs, marker, index, loop, up, pipes>>

\* a start that also skips the rebuild when documents were inserted before
IndexMissingUnlessBuilt(v) ==
  v.WORKING_DIR \notin marker /\ v.WORKING_DIR \notin index

\* a start that rebuilds whatever the directory holds
IndexAlwaysMissing(v) == v.WORKING_DIR \in Dirs

\* not os.path.exists(os.path.join(WORKING_DIR, "index.faiss"))
IndexMissing(v) == v.WORKING_DIR \notin marker

\* the try block: raise FileNotFoundError when the marker is absent
on_startup_check ==
  /\ st.pc = "check"
  /\ st' = [st EXCEPT !.pc = IF IndexMissing(valves) THEN "fetch" ELSE "loaded",
                      !.branch = IF IndexMissing(valves) THEN "miss" ELSE "hit"]
  /\ UNCHANGED <<valves, rag, nextId, dirs, marker, index, loop, up, pipes>>

\* print("Loaded existing index from storage"); the coroutine returns
on_startup_loaded ==
  /\ st.pc = "loaded"
  /\ st' = [st EXCEPT !.pc = "done"]
  /\ loop' = "free"
  /\ UNCHANGED <<valves, rag, nextId, dirs, marker, index, up, pipes>>

\* reader.aload_data([TARGET_URL]) is called and awaited: the coroutine
\* is suspended and the event loop is free for other coroutines
on_startup_fetch ==
  /\ st.pc = "fetch"
  /\ st' = [st EXCEPT !.pc = "await",
                      !.log = Append(@, Call("fetch", valves.TARGET_URL, 0))]
  /\ loop' = "free"
  /\ UNCHANGED <<valves, rag, nextId, dirs, marker, index, up, pipes>>

\* the fetch returns a list of documents: the coroutine resumes
on_startup_fetch_return ==
  /\ st.pc = "await"
  /\ loop = "free"
  /\ \E ds \in DocLists : st' = [st EXCEPT !.pc = "insert", !.documents = ds]
  /\ loop' = "on_startup"
  /\ UNCHANGED <<valves, rag, nextId, dirs, marker, index, up, pipes>>

\* the fetch raises: nothing in on_startup catches it, the coroutine ends
on_startup_fetch_raise ==
  /\ st.pc = "await"
  /\ loop = "free"
  /\ st' = [st EXCEPT !.pc = "failed", !.err = "FetchError"]
  /\ UNCHANGED <<valves, rag, nextId, dirs, marker, index, loop, up, pipes>>

\* the handle an iteration of the loop inserts into: self.rag, read anew
InsertTarget == rag

\* a loop that walks the fetched list from its end
NextDocReversed(documents, i) == documents[Len(documents) + 1 - i]

\* for doc in documents: the i-th iteration takes the i-th document's text
NextDoc(documents, i) == documents[i]

\* one iteration of: for doc in documents: self.rag.insert(doc.text)
\* The engine owns its storage: an insert may or may not leave the marker.
on_startup_insert ==
  /\ st.pc = "insert"
  /\ st.i <= Len(st.documents)
  /\ st' = [st EXCEPT !.i = @ + 1,
                      !.log = Append(@, Call("insert", NextDoc(st.documents, st.i),
                                             InsertTarget.id))]
  /\ index' = index \cup {InsertTarget.working_dir}
  /\ \E persisted \in BOOLEAN :
        /\ marker' = IF persisted THEN marker \cup {InsertTarget.working_dir}
                                  ELSE marker
        /\ dirs' = IF persisted THEN dirs \cup {InsertTarget.working_dir}
                                ELSE dirs
  /\ UNCHANGED <<valves, rag, nextId, loop, up, pipes>>

\* the loop is over: print("Created and persisted new index"); return
on_startup_return ==
  /\ st.pc = "insert"
  /\ st.i > Len(st.documents)
  /\ st' = [st EXCEPT !.pc = "done"]
  /\ loop' = "free"
  /\ UNCHANGED <<valves, rag, nextId, dirs, marker, index, up, pipes>>

\* ---------------------------------------------------- on_valves_updated
\* the host awaits on_valves_updated(): set_pipelines() and llm_func
on_valves_updated_call ==
  /\ loop = "free"
  /\ up.pc \in {"idle", "done"}
  /\ nextId <= MaxConstructions
  /\ up' = [UpdateIdle EXCEPT !.pc = "construct"]
  /\ loop' = "on_valves_updated"
  /\ UNCHANGED <<valves, rag, nextId, dirs, marker, index, st, pipes>>

\* a reconfigure that drops the current handle before it constructs
on_valves_updated_construct_discards ==
  /\ up.pc = "construct"
  /\ rag' = NoHandle
  /\ up' = [up EXCEPT !.pc = "assign",
                      !.tmp = LightRAG(valves, nextId),
                      !.log = Append(@, Call("construct", valves.WORKING_DIR, nextId))]
  /\ nextId' = nextId + 1
  /\ UNCHANGED <<valves, dirs, marker, index, loop, st, pipes>>

\* a reconfigure that ensures the working directory as on_startup does
on_valves_updated_construct_makedirs ==
  /\ up.pc = "construct"
  /\ dirs' = dirs \cup {valves.WORKING_DIR}
  /\ up' = [up EXCEPT !.pc = "assign",
                      !.tmp = LightRAG(valves, nextId),
                      !.log = Append(@, Call("construct", valves.WORKING_DIR, nextId))]
  /\ nextId' = nextId + 1
  /\ UNCHANGED <<valves, rag, marker, index, loop, st, pipes>>

\* LightRAG(...): the right-hand side of the assignment to self.rag
on_valves_updated_construct ==
  /\ up.pc = "construct"
  /\ up' = [up EXCEPT !.pc = "assign",
                      !.tmp = LightRAG(valves, nextId),
                      !.log = Append(@, Call("construct", valves.WORKING_DIR, nextId))]
  /\ nextId' = nextId + 1
  /\ UNCHANGED <<valves, rag, dirs, marker, index, loop, st, pipes>>

\* a reconfigure that keeps the handle it already has
on_valves_updated_assign_reuses ==
  /\ up.pc = "assign"
  /\ rag' = IF rag = NoHandle THEN up.tmp ELSE rag
  /\ up' = [up EXCEPT !.pc = "done"]
  /\ loop' = "free"
  /\ UNCHANGED <<valves, nextId, dirs, marker, index, st, pipes>>

\* self.rag = <the constructed handle>; print; the coroutine returns
on_valves_updated_assign ==
  /\ up.pc = "assign"
  /\ rag' = up.tmp
  /\ up' = [up EXCEPT !.pc = "done"]
  /\ loop' = "free"
  /\ UNCHANGED <<valves, nextId, dirs, marker, index, st, pipes>>

\* ------------------------------------------------------------------ pipe
\* the value of body.get("mode"), "" when the body has none
BodyMode(body) ==
  IF \E kv \in body : kv[1] = "mode"
    THEN (CHOOSE kv \in body : kv[1] = "mode")[2]
    ELSE ""

\* a resolution that consults the body before the configured default
ResolveModeBodyFirst(model_id, body, v) ==
  IF model_id # "" THEN model_id
  ELSE IF BodyMode(body) # "" THEN BodyMode(body) ELSE v.SEARCH_MODE

\* a resolution that replaces an unlisted model_id by the default
ResolveModeValidated(model_id, body, v) ==
  IF model_id \in {"naive", "local", "global", "hybrid"}
    THEN model_id ELSE v.SEARCH_MODE

\* search_mode = model_id or self.valves.SEARCH_MODE
ResolveMode(model_id, body, v) ==
  IF model_id # "" THEN model_id ELSE v.SEARCH_MODE

\* pipe(user_message, model_id, messages, body) up to the built QueryParam
pipe_call(t) ==
  /\ pipes[t].pc \in {"idle", "done", "error"}
  /\ \E m \in Messages, id \in ModelIds, b \in Bodies :
       pipes' = [pipes EXCEPT ![t] =
         [PipeIdle EXCEPT !.pc = "param",
                          !.user_message = m,
                          !.model_id = id,
                          !.body = b,
                          !.search_mode = ResolveMode(id, b, valves),
                          !.query_param = QueryParam(ResolveMode(id, b, valves),
                                                     valves)]]
  /\ UNCHANGED <<valves, rag, nextId, dirs, marker, index, loop, st, up>>

\* what is left of a call once pipe has returned or raised: its locals are
\* gone, the caller holds the outcome (and the generator holds response)
Leave(p, pc) ==
  [PipeIdle EXCEPT !.pc = pc, !.nquery = p.nquery]

\* a pipe that goes on to the query whatever self.rag is
pipe_query_unguarded(t) ==
  /\ pipes[t].pc = "param"
  /\ pipes' = [pipes EXCEPT ![t] =
       [@ EXCEPT !.pc = "query", !.handle = rag, !.nquery = @ + 1]]
  /\ UNCHANGED <<valves, rag, nextId, dirs, marker, index, loop, st, up>>

\* self.rag.query(user_message, param=query_param): self.rag is read once;
\* on None the attribute lookup raises and no engine call is made
pipe_query(t) ==
  /\ pipes[t].pc = "param"
  /\ pipes' = [pipes EXCEPT ![t] =
       IF rag = NoHandle
         THEN [Leave(@, "error") EXCEPT !.err = "AttributeError"]
         ELSE [@ EXCEPT !.pc = "query", !.handle = rag, !.nquery = @ + 1]]
  /\ UNCHANGED <<valves, rag, nextId, dirs, marker, index, loop, st, up>>

\* the engine's query returns; response_generator() is created and returned
pipe_return(t) ==
  /\ pipes[t].pc = "query"
  /\ \E a \in Answers :
       pipes' = [pipes EXCEPT ![t] =
         [Leave(@, "done") EXCEPT !.response = a, !.gen = "created"]]
  /\ UNCHANGED <<valves, rag, nextId, dirs, marker, index, loop, st, up>>

\* a pipe that calls query again when it raised
pipe_raise_retries(t) ==
  /\ pipes[t].pc = "query"
  /\ pipes' = [pipes EXCEPT ![t] = [@ EXCEPT !.nquery = @ + 1]]
  /\ UNCHANGED <<valves, rag, nextId, dirs, marker, index, loop, st, up>>

\* the engine's query raises: nothing in pipe catches it
pipe_raise(t) ==
  /\ pipes[t].pc = "query"
  /\ pipes' = [pipes EXCEPT ![t] = [Leave(@, "error") EXCEPT !.err = "EngineError"]]
  /\ UNCHANGED <<valves, rag, nextId, dirs, marker, index, loop, st, up>>

\* a sequence that starts over when advanced past its end
response_generator_restarts(p) ==
  CASE p.gen = "created"   -> [p EXCEPT !.gen = "suspended",
                                        !.out = Append(@, p.response)]
    [] p.gen = "suspended" -> [p EXCEPT !.gen = "exhausted"]
    [] OTHER               -> [p EXCEPT !.gen = "suspended",
                                        !.out = Append(@, p.response)]

\* def response_generator(): yield response
\* one next() on the generator: from "created" it yields the response and
\* suspends at the yield; from there it runs off the end (StopIteration)
\* and stays exhausted.
response_generator(p) ==
  CASE p.gen = "created"   -> [p EXCEPT !.gen = "suspended",
                                        !.out = Append(@, p.response)]
    [] p.gen = "suspended" -> [p EXCEPT !.gen = "exhausted"]
    [] OTHER               -> p

\* the caller of pipe advances the returned generator
pipe_next(t) ==
  /\ pipes[t].pc = "done"
  /\ pipes' = [pipes EXCEPT ![t] = response_generator(@)]
  /\ UNCHANGED <<valves, rag, nextId, dirs, marker, index, loop, st, up>>

\* ------------------------------------------------------------------ Next
Next ==
  \/ valves_replaced
  \/ on_startup_call
  \/ on_startup_makedirs
  \/ on_startup_construct
  \/ on_startup_assign
  \/ on_startup_check
  \/ on_startup_loaded
  \/ on_startup_fetch
  \/ on_startup_fetch_return
  \/ on_startup_fetch_raise
  \/ on_startup_insert
  \/ on_startup_return
  \/ on_valves_updated_call
  \/ on_valves_updated_construct
  \/ on_valves_updated_assign
  \/ \E t \in Threads : pipe_call(t)
  \/ \E t \in Threads : pipe_query(t)
  \/ \E t \in Threads : pipe_return(t)
  \/ \E t \in Threads : pipe_raise(t)
  \/ \E t \in Threads : pipe_next(t)

Spec == Init /\ [][Next]_vars

\* --------------------------------------------------------------- typing
TypeOK ==
  /\ valves \in ValvesSet
  /\ nextId \in 1..(MaxConstructions + 1)
  /\ rag.id \in 0..(nextId - 1)
  /\ marker \subseteq dirs
  /\ dirs \subseteq Dirs
  /\ index \subseteq Dirs
  /\ loop \in {"free", "on_startup", "on_valves_updated"}

\* ================================================================ claims
\* the directory the running on_startup invocation was started for
StartDir == st.log[1].arg

\* the calls of a log with the given operation
Ops(log, op) == SelectSeq(log, LAMBDA c : c.op = op)

\* C1: a cache-miss on_startup that completes has ensured the working
\* directory, then constructed the handle, then issued exactly one fetch,
\* and after it exactly one insert per fetched document, in the order of the
\* fetch result, and nothing else; the fetch is for the TARGET_URL configured
\* when it is issued.
C1_MissLog ==
  (st.pc = "done" /\ st.branch = "miss") =>
     /\ Len(st.log) = 3 + Len(st.documents)
     /\ st.log[1].op = "makedirs" /\ StartDir \in dirs
     /\ st.log[2].op = "construct"
     /\ st.log[3].op = "fetch"
     /\ \A k \in 1..Len(st.documents) :
          /\ st.log[3 + k].op = "insert"
          /\ st.log[3 + k].arg = st.documents[k]

C1_FetchStep ==
  (st.pc = "fetch" /\ st'.pc = "await") =>
     /\ Len(st'.log) = 3
     /\ st'.log[3] = Call("fetch", valves.TARGET_URL, 0)
     /\ StartDir \notin marker

C1_CacheMissStart == []C1_MissLog /\ [][C1_FetchStep]_vars

\* C1 witness: a cache-miss start has completed after inserting two
\* different documents.
C1_Witness ==
  /\ st.pc = "done" /\ st.branch = "miss"
  /\ Len(st.documents) = 2 /\ st.documents[1] # st.documents[2]
  /\ Len(Ops(st.log, "insert")) = 2

\* C2: when the working directory holds the marker, on_startup never gets
\* to the fetch: it issues no fetch and no insert, and it has constructed
\* one handle, bound to that directory and to the current configuration,
\* and made it the adapter's handle.
C2_CacheHitStart ==
  /\ (st.pc = "fetch") => StartDir \notin marker
  /\ (st.pc \in {"loaded", "done"} /\ st.branch = "hit") =>
        /\ StartDir \in marker
        /\ Ops(st.log, "fetch") = <<>>
        /\ Ops(st.log, "insert") = <<>>
        /\ Len(Ops(st.log, "construct")) = 1
        /\ st.tmp.id = st.log[2].h /\ st.tmp.id # 0
        /\ st.tmp.working_dir = StartDir
  /\ (st.pc = "loaded") =>
        /\ rag = st.tmp
        /\ rag.working_dir = valves.WORKING_DIR
        /\ rag.llm_model_func = llm_func(valves)
        /\ rag.chunk_size = valves.CHUNK_SIZE
        /\ rag.chunk_overlap = valves.CHUNK_OVERLAP
        /\ rag.distance_metric = valves.DISTANCE_METRIC
        /\ rag.top_k = valves.TOP_K

\* C2 witness: a start has found the marker and is about to return.
C2_Witness ==
  /\ st.pc = "loaded" /\ st.branch = "hit"
  /\ valves.WORKING_DIR \in marker
  /\ rag.id # 0

\* C3: on_valves_updated issues no fetch and no insert, constructs exactly
\* one handle, and none of its steps changes which directories exist, which
\* hold the marker, or which hold documents - whatever the state it starts in.
C3_UpdateLog ==
  /\ \A k \in 1..Len(up.log) : up.log[k].op = "construct"
  /\ (up.pc \in {"assign", "done"}) => Len(up.log) = 1
  /\ (up.pc = "done") => up.tmp.id = up.log[1].h

C3_UpdateFrame == (up' # up) => UNCHANGED <<dirs, marker, index>>

C3_ReconfigureOnlyConstructs == []C3_UpdateLog /\ [][C3_UpdateFrame]_vars

\* C3 witness: on_valves_updated has completed on an adapter that had no
\* handle, for a working directory that does not exist.
C3_Witness ==
  /\ up.pc = "done" /\ st.pc = "idle"
  /\ rag = up.tmp /\ rag.id # 0
  /\ rag.working_dir \notin dirs

\* the retrieval modes the adapter lists in set_pipelines
search_modes == {"naive", "local", "global", "hybrid"}

\* C4: whenever pipe was called with a non-empty model_id, the QueryParam
\* it builds and passes to query carries exactly that model_id as mode,
\* whatever the body and the default mode are, also for a model_id that is
\* no listed mode; the only error pipe itself raises before the query is
\* the missing handle.
C4_HintFirst ==
  \A t \in Threads :
    /\ (pipes[t].pc \in {"param", "query"} /\ pipes[t].model_id # "") =>
          /\ pipes[t].search_mode = pipes[t].model_id
          /\ pipes[t].query_param.mode = pipes[t].model_id
    /\ (pipes[t].pc = "error" /\ pipes[t].nquery = 0) =>
          pipes[t].err = "AttributeError"

\* C4 witness: a query is in flight with the unlisted mode "bogus" although
\* the body names "global".
C4_Witness ==
  \E t \in Threads :
    /\ pipes[t].pc = "query"
    /\ pipes[t].model_id = "bogus" /\ pipes[t].model_id \notin search_modes
    /\ BodyMode(pipes[t].body) = "global"
    /\ pipes[t].query_param.mode = "bogus"

\* C5 as stated: with an empty model_id and a body that carries a mode, the
\* mode passed to the engine is the body's mode.
C5_BodyModeUsed ==
  \A t \in Threads :
    (/\ pipes[t].pc \in {"param", "query"}
     /\ pipes[t].model_id = ""
     /\ BodyMode(pipes[t].body) # "") =>
        pipes[t].query_param.mode = BodyMode(pipes[t].body)

\* C5 amended: with an empty model_id the mode passed to the engine is the
\* SEARCH_MODE of the configuration current when pipe resolves it, whether
\* or not the body carries a mode; the body is never consulted.
C5_ResolveStep ==
  \A t \in Threads :
    /\ (pipes[t].pc # "param" /\ pipes'[t].pc = "param"
        /\ pipes'[t].model_id = "") =>
          pipes'[t].query_param.mode = valves.SEARCH_MODE
    /\ (pipes[t].pc = "param" /\ pipes'[t].pc = "query") =>
          pipes'[t].query_param = pipes[t].query_param

C5_DefaultWhenNoHint == [][C5_ResolveStep]_vars

\* C5 witness: a query is in flight for a call with an empty model_id and a
\* body naming "global", and its mode is a configured default.
C5_Witness ==
  \E t \in Threads :
    /\ pipes[t].pc = "query"
    /\ pipes[t].model_id = ""
    /\ BodyMode(pipes[t].body) = "global"
    /\ pipes[t].query_param.mode \in {v.SEARCH_MODE : v \in ValvesSet}

\* C6: a pipe call that returned has called query exactly once; the
\* sequence it returned yields nothing before the first next(), and from
\* then on has yielded exactly the one query result, however often it is
\* advanced.
C6_OneElement ==
  \A t \in Threads :
    (pipes[t].pc = "done") =>
       /\ pipes[t].nquery = 1
       /\ pipes[t].response \in Answers
       /\ pipes[t].gen \in {"created", "suspended", "exhausted"}
       /\ (pipes[t].gen = "created") => pipes[t].out = <<>>
       /\ (pipes[t].gen # "created") => pipes[t].out = <<pipes[t].response>>

\* C6 witness: the returned sequence has yielded its element and has then
\* signalled exhaustion.
C6_Witness ==
  \E t \in Threads :
    /\ pipes[t].pc = "done" /\ pipes[t].gen = "exhausted"
    /\ pipes[t].out = <<pipes[t].response>>

\* C7 as stated: after a fetch failure in a cache-miss start, no insert was
\* made, the working directory holds no marker, and the adapter is not left
\* with a handle that serves queries from an empty index.
C7_FetchFailureFatal ==
  (st.pc = "failed") =>
     /\ st.err = "FetchError"
     /\ Ops(st.log, "insert") = <<>>
     /\ StartDir \notin marker
     /\ ~(rag # NoHandle /\ rag.working_dir \notin index)

\* C8: a query in flight runs on one handle, the value self.rag had at
\* pipe's single read of it: never None, always a handle whose construction
\* had completed, and the same one until the query ends; self.rag itself
\* changes only by one assignment of a completely constructed handle.
C8_QueryHandle ==
  \A t \in Threads :
    (pipes[t].pc = "query") =>
       /\ pipes[t].handle # NoHandle
       /\ pipes[t].handle.id \in 1..(nextId - 1)
       /\ pipes[t].handle \in {LightRAG(v, pipes[t].handle.id) : v \in ValvesSet}

C8_Step ==
  /\ (rag' # rag) =>
        /\ rag' # NoHandle
        /\ \/ (up.pc = "assign" /\ up'.pc = "done" /\ rag' = up.tmp)
           \/ (st.pc = "assign" /\ st'.pc = "check" /\ rag' = st.tmp)
  /\ \A t \in Threads :
        /\ (pipes[t].pc = "param" /\ pipes'[t].pc = "query") =>
              pipes'[t].handle = rag
        /\ (pipes[t].pc = "query" /\ pipes'[t].pc = "query") =>
              pipes'[t].handle = pipes[t].handle

C8_ConsistentSnapshot == []C8_QueryHandle /\ [][C8_Step]_vars

\* C8 witness: on_valves_updated has replaced the handle while a query is
\* still running on the handle that was live before.
C8_Witness ==
  \E t \in Threads :
    /\ pipes[t].pc = "query"
    /\ up.pc = "done" /\ rag = up.tmp
    /\ pipes[t].handle # rag
    /\ pipes[t].handle.id # 0

\* C9 as stated: on_valves_updated on an adapter that no on_startup has
\* run on is rejected (no handle) or acts as a start (marker found, or
\* documents fetched); it never leaves a handle over an index never built.
C9_NoReadyWithoutIndex ==
  (st.pc = "idle" /\ up.pc = "done") =>
     \/ rag = NoHandle
     \/ rag.working_dir \in marker
     \/ Ops(up.log, "fetch") # <<>>

\* C10 as stated: a cache-miss start whose fetch returned no document does
\* not complete successfully.
C10_EmptyFetchFails ==
  (st.branch = "miss" /\ st.documents = <<>>) => st.pc # "done"

\* C11: when the engine's query raises inside pipe, that error is what the
\* caller gets: query was called once for the call and is not called again,
\* no sequence and no answer is returned, and no step of pipe changes the
\* adapter's handle or configuration.
C11_ErrorOutcome ==
  \A t \in Threads :
    /\ (pipes[t].pc = "query") => pipes[t].nquery = 1
    /\ (pipes[t].pc = "error" /\ pipes[t].err = "EngineError") =>
          /\ pipes[t].nquery = 1
          /\ pipes[t].gen = "none"
          /\ pipes[t].out = <<>>
          /\ pipes[t].response = ""

C11_Step ==
  /\ (pipes' # pipes) => UNCHANGED <<rag, valves>>
  /\ \A t \in Threads :
       (pipes[t].pc = "query" /\ pipes'[t].pc # "query") =>
          \/ pipes'[t].pc = "done" /\ pipes'[t].response \in Answers
          \/ pipes'[t].pc = "error" /\ pipes'[t].err = "EngineError"

C11_QueryErrorPropagates == []C11_ErrorOutcome /\ [][C11_Step]_vars

\* C11 witness: a pipe call has ended in the engine's error on a ready
\* adapter.
C11_Witness ==
  \E t \in Threads :
    /\ pipes[t].pc = "error" /\ pipes[t].err = "EngineError"
    /\ pipes[t].nquery = 1
    /\ rag # NoHandle

\* C12 as stated: whenever a handle has been constructed, by on_startup or
\* by on_valves_updated, its working directory exists.
C12_DirEnsuredBeforeConstruct ==
  /\ (st.pc = "assign") => st.tmp.working_dir \in dirs
  /\ (up.pc = "assign") => up.tmp.working_dir \in dirs
  /\ (rag # NoHandle) => rag.working_dir \in dirs

\* C13: an on_startup invocation goes on to fetch exactly when index.faiss
\* is absent from the working directory at its check and otherwise returns
\* at once, whatever handle, earlier start or earlier insert there was; on
\* the miss branch it has fetched once and, when done, inserted every
\* fetched document; on the hit branch it has fetched and inserted nothing.
C13_Branch ==
  /\ (st.branch = "miss" /\ st.pc \in {"await", "insert", "done", "failed"}) =>
        Len(Ops(st.log, "fetch")) = 1
  /\ (st.branch = "miss" /\ st.pc = "done") =>
        Len(Ops(st.log, "insert")) = Len(st.documents)
  /\ (st.branch = "hit") =>
        /\ st.pc \in {"loaded", "done"}
        /\ Ops(st.log, "fetch") = <<>>
        /\ Ops(st.log, "insert") = <<>>

C13_CheckStep ==
  (st.pc = "check" /\ st'.pc # "check") =>
     /\ (valves.WORKING_DIR \notin marker) =>
           (st'.pc = "fetch" /\ st'.branch = "miss")
     /\ (valves.WORKING_DIR \in marker) =>
           (st'.pc = "loaded" /\ st'.branch = "hit")

C13_MarkerAloneDecides == []C13_Branch /\ [][C13_CheckStep]_vars

\* C13 witness: a second start is fetching again although a handle existed
\* and documents were already inserted into the directory, because the
\* marker is still absent.
C13_Witness ==
  /\ st.pc = "await" /\ st.branch = "miss"
  /\ st.tmp.id = 2 /\ up.pc = "idle"
  /\ StartDir \in index /\ StartDir \notin marker

\* C14: once a handle is held it is never lost; between coroutine steps the
\* held handle is the most recently constructed one; on_valves_updated
\* installs a handle that is not the previous one, and no step of pipe
\* changes the handle.
C14_Live ==
  /\ (st.pc \in {"check", "loaded", "fetch", "await", "insert", "done", "failed"})
        => rag # NoHandle
  /\ (up.pc = "done") => rag # NoHandle
  /\ (loop = "free") => rag.id = nextId - 1

C14_Step ==
  /\ (rag # NoHandle) => (rag' # NoHandle)
  /\ (up.pc = "assign" /\ up'.pc = "done") =>
        (rag' = up.tmp /\ rag'.id # rag.id /\ rag'.id = nextId - 1)
  /\ (pipes' # pipes) => (rag' = rag)

C14_OneLiveHandle == []C14_Live /\ [][C14_Step]_vars

\* C14 witness: after a completed start, on_valves_updated has replaced
\* the handle by the second one constructed and a pipe call has returned.
C14_Witness ==
  /\ st.pc = "done" /\ up.pc = "done"
  /\ rag = up.tmp /\ rag.id = 2
  /\ \E t \in Threads : pipes[t].pc = "done"

\* C15: the QueryParam of a pipe call is built in that call from the mode it
\* resolved and from TOP_K and DISTANCE_METRIC of the configuration current
\* then, and it is what the query is called with.
C15_Step ==
  \A t \in Threads :
    /\ (pipes[t].pc # "param" /\ pipes'[t].pc = "param") =>
          /\ pipes'[t].query_param.mode = pipes'[t].search_mode
          /\ pipes'[t].query_param.top_k = valves.TOP_K
          /\ pipes'[t].query_param.distance_metric = valves.DISTANCE_METRIC
    /\ (pipes[t].pc = "param" /\ pipes'[t].pc = "query") =>
          pipes'[t].query_param = pipes[t].query_param

C15_FreshQueryParam == [][C15_Step]_vars

\* C15 witness: after the configuration was replaced without a reconfigure,
\* a query runs with the new TOP_K and DISTANCE_METRIC on a handle that was
\* constructed with the old ones.
C15_Witness ==
  \E t \in Threads :
    /\ pipes[t].pc = "query"
    /\ pipes[t].query_param.top_k = valves.TOP_K
    /\ pipes[t].query_param.top_k # pipes[t].handle.top_k
    /\ pipes[t].query_param.distance_metric # pipes[t].handle.distance_metric

\* C16 as stated: every insert of an on_startup invocation goes to the
\* handle that this invocation constructed.
C16_InsertsIntoOwnHandle ==
  \A k \in 1..Len(st.log) :
    (st.log[k].op = "insert") => st.log[k].h = st.tmp.id

\* C17 as stated: while a cache-miss start is suspended on its fetch or has
\* not finished its inserts, no query is running on the handle it built.
C17_NoQueryBeforeInserts ==
  \A t \in Threads :
    (st.branch = "miss" /\ st.pc \in {"await", "insert"}) =>
       ~(pipes[t].pc = "query" /\ pipes[t].handle.id = st.tmp.id)

\* C18: a pipe call that finds no handle ends in an error without having
\* called query and without a sequence, and leaves the adapter without a
\* handle.
C18_ErrorOutcome ==
  \A t \in Threads :
    (pipes[t].pc = "error" /\ pipes[t].err = "AttributeError") =>
       /\ pipes[t].nquery = 0
       /\ pipes[t].gen = "none"
       /\ pipes[t].out = <<>>

C18_Step ==
  \A t \in Threads :
    (pipes[t].pc = "param" /\ pipes'[t].pc # "param" /\ rag = NoHandle) =>
       /\ pipes'[t].pc = "error"
       /\ pipes'[t].err = "AttributeError"
       /\ pipes'[t].nquery = 0
       /\ rag' = NoHandle

C18_UninitializedPipeFails == []C18_ErrorOutcome /\ [][C18_Step]_vars

\* C18 witness: a pipe call on a freshly constructed adapter has ended in
\* the error and the adapter still has no handle.
C18_Witness ==
  \E t \in Threads :
    /\ pipes[t].pc = "error" /\ pipes[t].err = "AttributeError"
    /\ rag = NoHandle /\ st.pc = "idle" /\ up.pc = "idle"

====
